---- MODULE Spec2Model ----
(***************************************************************************)
(* Model of the link shortener: the links table (src/db/schema.ts), the    *)
(* data helpers createLinkInDb / updateLinkInDb / deleteLinkInDb           *)
(* (src/data/links.ts) and the createLink server action                    *)
(* (src/app/dashboard/actions.ts).                                         *)
(*                                                                         *)
(* Text (URLs, short codes) is a sequence of one-character strings.        *)
(* createLink and updateLinkInDb issue exactly one SQL statement, so each  *)
(* is one atomic step on the table; deleteLinkInDb issues a SELECT and     *)
(* then a DELETE, so it is two steps that other requests may interleave.   *)
(*                                                                         *)
(* Spec      the calls in every order, all within one clock reading        *)
(* SpecTimed the same calls with the clock advancing between them          *)
(* SpecRace  createLink requests for one custom code issued together       *)
(* SpecRaceFair  the same, every request being run to its end              *)
(* SpecCodes createLink requests over the edge cases of customCode         *)
(* SpecGenerate  generateShortCode over the outcomes of the random source  *)
(* SpecOwner createLink requests that carry a userId of their own,         *)
(*           updates and deletes                                           *)
(* SpecUpdate  creates and updates with the clock advancing between them   *)
(* SpecRoutes  page requests through the middleware and the layout         *)
(* SpecPair  two calls by the owner on one link, issued together           *)
(* SpecDialog  the create-link dialog of the dashboard and its submits     *)
(***************************************************************************)
EXTENDS Integers, Sequences, FiniteSets, TLC

---------------------------------------------------------------------------
(* Bounds of the model *)

\* number of values the serial column may hand out
MaxLinks == 2
\* the wall clock takes the values 0..MaxClock
MaxClock == 2
\* number of distinct outcomes of the random source
NumDraws == 2

\* authenticated principals (Clerk user ids)
Users == {"user_1", "user_2"}
\* auth() resolved with userId: null
NoUser == "null"
\* requests that may have a delete in flight at the same time
Procs == {"p1", "p2"}
\* createLink requests issued together
Racers == {"r1", "r2", "r3"}

\* a value that is absent (undefined) in the request or the patch
Undefined == <<"undefined">>
\* a key that the input object does not have
Absent == "undefined"

---------------------------------------------------------------------------
(* Text *)

\* the alphabet of generateShortCode
chars ==
  <<"a","b","c","d","e","f","g","h","i","j","k","l","m",
    "n","o","p","q","r","s","t","u","v","w","x","y","z",
    "A","B","C","D","E","F","G","H","I","J","K","L","M",
    "N","O","P","Q","R","S","T","U","V","W","X","Y","Z",
    "0","1","2","3","4","5","6","7","8","9">>

Range(s) == {s[i] : i \in 1..Len(s)}

Letters == {chars[i] : i \in 1..52}

\* number of characters of a generated code
CodeLength == 8

\* a generator whose loop stops one iteration early
generateShortCode_short(draw) ==
  [i \in 1..(CodeLength - 1) |-> chars[draw[i] + 1]]

\* generateShortCode with the random source fixed: draw[i] is the value of
\* Math.floor(Math.random() * chars.length) in iteration i
generateShortCode(draw) == [i \in 1..CodeLength |-> chars[draw[i] + 1]]

\* the outcomes of the random source that the model explores
RandomDraws == {[i \in 1..CodeLength |-> k] : k \in 0..(NumDraws - 1)}

\* outcomes of the random source for one call of generateShortCode: every
\* index of the alphabet at every position
GenDraws ==
  {[i \in 1..CodeLength |-> IF i = p THEN a ELSE b] :
     p \in 1..CodeLength, a \in 0..(Len(chars) - 1), b \in 0..(Len(chars) - 1)}

---------------------------------------------------------------------------
(* Validation: createLinkSchema *)

\* position of the first ":" of s, 0 when there is none
ColonAt(s) ==
  IF \E i \in 1..Len(s) : s[i] = ":"
    THEN CHOOSE i \in 1..Len(s) : s[i] = ":" /\ \A j \in 1..(i - 1) : s[j] # ":"
    ELSE 0

SchemeChars == Range(chars) \cup {"+", "-", "."}

\* schemes whose URLs must name a host
SpecialSchemes ==
  { <<"h","t","t","p">>, <<"h","t","t","p","s">>, <<"f","t","p">>,
    <<"w","s">>, <<"w","s","s">> }

RECURSIVE StripSlashes(_)
StripSlashes(s) ==
  IF s # <<>> /\ Head(s) \in {"/", "\\"} THEN StripSlashes(Tail(s)) ELSE s

\* a validator that accepts any text
IsUrl_any(s) == TRUE

\* z.string().url(): the text parses as an absolute URL, that is a scheme,
\* a colon and, for the special schemes, a host
IsUrl(s) ==
  LET k == ColonAt(s) IN
    /\ k > 1
    /\ s[1] \in Letters
    /\ \A i \in 2..(k - 1) : s[i] \in SchemeChars
    /\ (SubSeq(s, 1, k - 1) \in SpecialSchemes
          => StripSlashes(SubSeq(s, k + 1, Len(s))) # <<>>)

MinCodeLen == 3
MaxCodeLen == 20

\* /^[a-zA-Z0-9_-]+$/
CodeChars == Range(chars) \cup {"_", "-"}

\* a customCode rule that accepts any text
IsCustomCode_any(c) == TRUE

\* a customCode rule without the literal "" alternative
IsCustomCode_noEmpty(c) ==
  \/ c = Undefined
  \/ /\ Len(c) >= MinCodeLen
     /\ Len(c) <= MaxCodeLen
     /\ \A i \in 1..Len(c) : c[i] \in CodeChars

\* customCode: string min(3) max(20) regex, optional, or the literal ""
IsCustomCode(c) ==
  \/ c = Undefined
  \/ c = <<>>
  \/ /\ Len(c) >= MinCodeLen
     /\ Len(c) <= MaxCodeLen
     /\ \A i \in 1..Len(c) : c[i] \in CodeChars

\* createLinkSchema.safeParse(input).success
createLinkSchema(input) == IsUrl(input.url) /\ IsCustomCode(input.customCode)

---------------------------------------------------------------------------
(* Inputs the model explores *)

UrlA == <<"h","t","t","p","s",":","/","/","a">>
UrlB == <<"h","t","t","p","s",":","/","/","b">>
\* "not-a-url": no scheme
UrlNoScheme == <<"n","o","t","-","a","-","u","r","l">>
\* "https://": a special scheme without a host
UrlNoHost == <<"h","t","t","p","s",":","/","/">>

GoodUrls == {UrlA, UrlB}
UrlInputs == GoodUrls \cup {UrlNoScheme, UrlNoHost}

CodeAbc == <<"a","b","c">>
\* too short for createLinkSchema
CodeAb == <<"a","b">>
GenCodes == {generateShortCode(d) : d \in RandomDraws}

CustomCodeInputs == {Undefined, <<>>, CodeAbc, CodeAb}

\* edge cases of customCode: the longest code allowed, one character more,
\* the two punctuation characters allowed, characters outside the class
CodeLongest == [i \in 1..MaxCodeLen |-> "Z"]
CodeTooLong == [i \in 1..(MaxCodeLen + 1) |-> "Z"]
CodePunct == <<"a","_","-">>
CodeBang == <<"a","b","!">>
CodeSpace == <<"a"," ","b","c">>
CodeDot == <<"a",".","b">>

CodeCases ==
  {Undefined, <<>>, CodeAbc, CodeAb, CodeLongest, CodeTooLong, CodePunct,
   CodeBang, CodeSpace, CodeDot}

Patches ==
  { d \in [originalUrl : GoodUrls \cup {Undefined},
           shortCode : {Undefined, CodeAbc}] :
      d.originalUrl # Undefined \/ d.shortCode # Undefined }

---------------------------------------------------------------------------
(* Storage: the links table *)

\* outcomes of one SQL statement
DbOk == "ok"
\* duplicate key value violates unique constraint "links_short_code_unique"
DbUnique == "unique"
\* any other failure of the statement (connection lost, timeout, ...)
DbFault == "fault"

\* a table without the unique constraint
UniqueViolation_never(tbl, code, selfId) == FALSE

\* the unique constraint on short_code: the code is held by a row other
\* than the one being written
UniqueViolation(tbl, code, selfId) ==
  \E r \in tbl : r.shortCode = code /\ r.id # selfId

\* an insert that checks no constraint
DbInsert_noConstraint(tbl, nid, now, vals, fault) ==
  IF fault
    THEN [err |-> DbFault, rows |-> <<>>, links |-> tbl, nextId |-> nid]
    ELSE LET row == [id |-> nid,
                     userId |-> vals.userId,
                     originalUrl |-> vals.originalUrl,
                     shortCode |-> vals.shortCode,
                     createdAt |-> now,
                     updatedAt |-> now]
         IN [err |-> DbOk, rows |-> <<row>>, links |-> tbl \cup {row},
             nextId |-> nid + 1]

\* an insert that stores the row and then reports a failure
DbInsert_partial(tbl, nid, now, vals, fault) ==
  LET row == [id |-> nid,
              userId |-> vals.userId,
              originalUrl |-> vals.originalUrl,
              shortCode |-> vals.shortCode,
              createdAt |-> now,
              updatedAt |-> now]
  IN IF UniqueViolation(tbl, vals.shortCode, nid)
       THEN [err |-> DbUnique, rows |-> <<>>, links |-> tbl,
             nextId |-> nid + 1]
       ELSE IF fault
         THEN [err |-> DbFault, rows |-> <<>>, links |-> tbl \cup {row},
               nextId |-> nid + 1]
         ELSE [err |-> DbOk, rows |-> <<row>>, links |-> tbl \cup {row},
               nextId |-> nid + 1]

\* an insert that gives the row the lowest id no row of the table holds
DbInsert_lowestFree(tbl, nid, now, vals, fault) ==
  LET free == CHOOSE i \in 1..nid :
                /\ \A r \in tbl : r.id # i
                /\ \A j \in 1..(i - 1) : \E r \in tbl : r.id = j
  IN IF fault
       THEN [err |-> DbFault, rows |-> <<>>, links |-> tbl, nextId |-> nid]
       ELSE IF UniqueViolation(tbl, vals.shortCode, free)
         THEN [err |-> DbUnique, rows |-> <<>>, links |-> tbl,
               nextId |-> nid + 1]
         ELSE LET row == [id |-> free,
                          userId |-> vals.userId,
                          originalUrl |-> vals.originalUrl,
                          shortCode |-> vals.shortCode,
                          createdAt |-> now,
                          updatedAt |-> now]
              IN [err |-> DbOk, rows |-> <<row>>, links |-> tbl \cup {row},
                  nextId |-> nid + 1]

\* INSERT INTO links (...) VALUES (...) RETURNING *
\* id comes from the serial sequence, created_at and updated_at default to
\* now(); the sequence value is consumed even when the constraint rejects
\* the row
DbInsert(tbl, nid, now, vals, fault) ==
  IF fault
    THEN [err |-> DbFault, rows |-> <<>>, links |-> tbl, nextId |-> nid]
    ELSE IF UniqueViolation(tbl, vals.shortCode, nid)
      THEN [err |-> DbUnique, rows |-> <<>>, links |-> tbl,
            nextId |-> nid + 1]
      ELSE LET row == [id |-> nid,
                       userId |-> vals.userId,
                       originalUrl |-> vals.originalUrl,
                       shortCode |-> vals.shortCode,
                       createdAt |-> now,
                       updatedAt |-> now]
           IN [err |-> DbOk, rows |-> <<row>>, links |-> tbl \cup {row},
               nextId |-> nid + 1]

\* a SET that leaves updated_at as it was
ApplyPatch_stale(r, data, now) ==
  [r EXCEPT
     !.originalUrl = IF data.originalUrl # Undefined THEN data.originalUrl
                     ELSE @,
     !.shortCode = IF data.shortCode # Undefined THEN data.shortCode ELSE @]

\* the row after SET data, with updated_at refreshed by $onUpdate
ApplyPatch(r, data, now) ==
  [r EXCEPT
     !.originalUrl = IF data.originalUrl # Undefined THEN data.originalUrl
                     ELSE @,
     !.shortCode = IF data.shortCode # Undefined THEN data.shortCode ELSE @,
     !.updatedAt = now]

\* UPDATE links SET data WHERE id = linkId RETURNING *
DbUpdateById(tbl, now, linkId, data, fault) ==
  LET hit == {r \in tbl : r.id = linkId} IN
    IF fault
      THEN [err |-> DbFault, rows |-> <<>>, links |-> tbl]
      ELSE IF hit = {}
        THEN [err |-> DbOk, rows |-> <<>>, links |-> tbl]
        ELSE LET old == CHOOSE r \in hit : TRUE
                 new == ApplyPatch(old, data, now)
             IN IF UniqueViolation(tbl, new.shortCode, linkId)
                  THEN [err |-> DbUnique, rows |-> <<>>, links |-> tbl]
                  ELSE [err |-> DbOk, rows |-> <<new>>,
                        links |-> (tbl \ hit) \cup {new}]

\* every order in which the rows of a set can be returned
Perms(rows) ==
  {s \in [1..Cardinality(rows) -> rows] :
     \A i, j \in 1..Cardinality(rows) : i # j => s[i] # s[j]}

\* ORDER BY col DESC: the rows in any order that does not put a smaller
\* value of the column first; rows with equal values come in either order
OrderByDesc(rows, col) ==
  {s \in Perms(rows) : \A i \in 1..(Len(s) - 1) : s[i][col] >= s[i + 1][col]}

\* a SELECT without the WHERE clause
DbSelectByUser_all(tbl, userId) == tbl

\* SELECT * FROM links WHERE user_id = userId
DbSelectByUser(tbl, userId) == {r \in tbl : r.userId = userId}

\* SELECT * FROM links WHERE id = linkId
DbSelectById(tbl, linkId) == {r \in tbl : r.id = linkId}

\* DELETE FROM links WHERE id = linkId
DbDeleteById(tbl, linkId) == {r \in tbl : r.id # linkId}

---------------------------------------------------------------------------
(* src/data/links.ts *)

\* a code choice that ignores the caller's code
ShortCodeFor_generated(customCode, draw) == generateShortCode(draw)

\* data.customCode || generateShortCode()
ShortCodeFor(customCode, draw) ==
  IF customCode = Undefined \/ customCode = <<>>
    THEN generateShortCode(draw)
    ELSE customCode

\* a createLinkInDb that, when a generated code is rejected as a duplicate,
\* inserts again with a generated code that is free
createLinkInDb_retry(tbl, nid, now, data, draw, fault) ==
  LET code == ShortCodeFor(data.customCode, draw)
      vals(c) == [originalUrl |-> data.originalUrl, shortCode |-> c,
                  userId |-> data.userId]
      db == DbInsert(tbl, nid, now, vals(code), fault)
      free == {generateShortCode(d) : d \in RandomDraws}
                \ {r.shortCode : r \in tbl}
  IN IF db.err = DbUnique /\ data.customCode = Undefined /\ free # {}
       THEN LET c2 == CHOOSE c \in free : TRUE
                db2 == DbInsert(tbl, db.nextId, now, vals(c2), fault)
            IN [err |-> db2.err, rows |-> db2.rows, links |-> db2.links,
                nextId |-> db2.nextId, attempts |-> 2, tried |-> c2]
       ELSE [err |-> db.err, rows |-> db.rows, links |-> db.links,
             nextId |-> db.nextId, attempts |-> 1, tried |-> code]

\* createLinkInDb: one insert statement, whose rejection is thrown to the
\* caller; attempts counts the insert statements issued
createLinkInDb(tbl, nid, now, data, draw, fault) ==
  LET code == ShortCodeFor(data.customCode, draw)
      db == DbInsert(tbl, nid, now,
                     [originalUrl |-> data.originalUrl,
                      shortCode |-> code,
                      userId |-> data.userId],
                     fault)
  IN [err |-> db.err, rows |-> db.rows, links |-> db.links,
      nextId |-> db.nextId, attempts |-> 1, tried |-> code]

\* values a data helper hands back
RetNull == [kind |-> "null"]
RetLink(r) == [kind |-> "link", link |-> r]
RetThrow(e) == [kind |-> "throw", err |-> e]
RetBool(b) == [kind |-> "bool", value |-> b]

RetList(s) == [kind |-> "list", rows |-> s]

\* new Error("Unauthorized")
ErrNoSession == "Unauthorized"

\* getCurrentUserLinks: the results the call may give, the rows of the
\* signed-in user by updated_at, latest first
getCurrentUserLinks(tbl, session, fault) ==
  IF session = NoUser
    THEN {RetThrow(ErrNoSession)}
    ELSE IF fault
      THEN {RetThrow(DbFault)}
      ELSE {RetList(s) :
              s \in OrderByDesc(DbSelectByUser(tbl, session), "updatedAt")}

\* getUserLinks of the dashboard page: the rows of the user by created_at,
\* latest first
getUserLinks(tbl, userId, fault) ==
  IF fault
    THEN {RetThrow(DbFault)}
    ELSE {RetList(s) :
            s \in OrderByDesc(DbSelectByUser(tbl, userId), "createdAt")}

\* an updateLinkInDb that, when the code of the patch is taken, stores the
\* patch under a generated code that is free
updateLinkInDb_substitute(tbl, now, linkId, data, userId, fault) ==
  LET db1 == DbUpdateById(tbl, now, linkId, data, fault)
      free == GenCodes \ {r.shortCode : r \in tbl}
      db == IF db1.err = DbUnique /\ free # {}
              THEN DbUpdateById(tbl, now, linkId,
                                [data EXCEPT !.shortCode =
                                               CHOOSE c \in free : TRUE],
                                fault)
              ELSE db1
  IN IF db.err # DbOk
       THEN [ret |-> RetThrow(db.err), links |-> db.links]
       ELSE IF db.rows # <<>> /\ db.rows[1].userId # userId
         THEN [ret |-> RetNull, links |-> db.links]
         ELSE IF db.rows # <<>>
           THEN [ret |-> RetLink(db.rows[1]), links |-> db.links]
           ELSE [ret |-> RetNull, links |-> db.links]

\* updateLinkInDb: the UPDATE selects the row by id alone and runs first;
\* the owner is compared afterwards, on the row the statement returned
updateLinkInDb(tbl, now, linkId, data, userId, fault) ==
  LET db == DbUpdateById(tbl, now, linkId, data, fault) IN
    IF db.err # DbOk
      THEN [ret |-> RetThrow(db.err), links |-> db.links]
      ELSE IF db.rows # <<>> /\ db.rows[1].userId # userId
        THEN [ret |-> RetNull, links |-> db.links]
        ELSE IF db.rows # <<>>
          THEN [ret |-> RetLink(db.rows[1]), links |-> db.links]
          ELSE [ret |-> RetNull, links |-> db.links]

\* deleteLinkInDb when nothing runs between its two statements
deleteLinkInDb(tbl, linkId, userId) ==
  LET existingLink == DbSelectById(tbl, linkId) IN
    IF existingLink = {} \/ \E r \in existingLink : r.userId # userId
      THEN [ret |-> RetBool(FALSE), links |-> tbl]
      ELSE [ret |-> RetBool(TRUE), links |-> DbDeleteById(tbl, linkId)]

\* getLinkByShortCode: exact-match lookup by short code, no owner filter
getLinkByShortCode(tbl, code) ==
  LET hit == {r \in tbl : r.shortCode = code} IN
    IF hit = {} THEN RetNull ELSE RetLink(CHOOSE r \in hit : TRUE)

---------------------------------------------------------------------------
(* src/app/dashboard/actions.ts *)

ErrUnauthorized == "unauthorized: sign in first"
ErrValidation == "validation failed"
ErrCodeInUse == "this custom short code is already in use"
ErrGeneric == "an error occurred while creating the link"

\* error instanceof Error && error.message.includes("unique")
IsUniqueError(err) == err = DbUnique

\* a catch block that does not recognise the duplicate-key error
CatchResponse_generic(err) == [success |-> FALSE, error |-> ErrGeneric]

\* a catch block that throws again what is not a duplicate-key error
CatchResponse_rethrow(err) ==
  IF IsUniqueError(err)
    THEN [success |-> FALSE, error |-> ErrCodeInUse]
    ELSE RetThrow(err)

\* the response of the catch block
CatchResponse(err) ==
  IF IsUniqueError(err)
    THEN [success |-> FALSE, error |-> ErrCodeInUse]
    ELSE [success |-> FALSE, error |-> ErrGeneric]

\* the customCode handed to createLinkInDb
CustomCodeArg(c) == IF c # Undefined /\ Len(c) > 0 THEN c ELSE Undefined

\* no statement was issued
DbNone == "none"

\* a createLink that validates the input before it looks at the session
createLink_validateFirst(tbl, nid, now, session, input, draw, fault) ==
  IF ~createLinkSchema(input)
    THEN [response |-> [success |-> FALSE, error |-> ErrValidation],
          links |-> tbl, nextId |-> nid, attempts |-> 0,
          tried |-> Undefined, db |-> DbNone]
    ELSE IF session = NoUser
      THEN [response |-> [success |-> FALSE, error |-> ErrUnauthorized],
            links |-> tbl, nextId |-> nid, attempts |-> 0,
            tried |-> Undefined, db |-> DbNone]
      ELSE LET data == [originalUrl |-> input.url,
                        customCode |-> CustomCodeArg(input.customCode),
                        userId |-> session]
               db == createLinkInDb(tbl, nid, now, data, draw, fault)
           IN [response |-> IF db.err = DbOk
                              THEN [success |-> TRUE, data |-> db.rows[1]]
                              ELSE CatchResponse(db.err),
               links |-> db.links, nextId |-> db.nextId,
               attempts |-> db.attempts, tried |-> db.tried, db |-> db.err]

\* a createLink that takes the owner from the input when the input names
\* one
createLink_inputOwner(tbl, nid, now, session, input, draw, fault) ==
  IF session = NoUser
    THEN [response |-> [success |-> FALSE, error |-> ErrUnauthorized],
          links |-> tbl, nextId |-> nid, attempts |-> 0,
          tried |-> Undefined, db |-> DbNone]
    ELSE IF ~createLinkSchema(input)
      THEN [response |-> [success |-> FALSE, error |-> ErrValidation],
            links |-> tbl, nextId |-> nid, attempts |-> 0,
            tried |-> Undefined, db |-> DbNone]
      ELSE LET data == [originalUrl |-> input.url,
                        customCode |-> CustomCodeArg(input.customCode),
                        userId |-> IF input.userId # Absent
                                     THEN input.userId ELSE session]
               db == createLinkInDb(tbl, nid, now, data, draw, fault)
           IN [response |-> IF db.err = DbOk
                              THEN [success |-> TRUE, data |-> db.rows[1]]
                              ELSE CatchResponse(db.err),
               links |-> db.links, nextId |-> db.nextId,
               attempts |-> db.attempts, tried |-> db.tried, db |-> db.err]

\* createLink: the response, the table and the sequence after the call,
\* the number of insert statements issued, the short code the last one
\* carried and its outcome
createLink(tbl, nid, now, session, input, draw, fault) ==
  IF session = NoUser
    THEN [response |-> [success |-> FALSE, error |-> ErrUnauthorized],
          links |-> tbl, nextId |-> nid, attempts |-> 0,
          tried |-> Undefined, db |-> DbNone]
    ELSE IF ~createLinkSchema(input)
      THEN [response |-> [success |-> FALSE, error |-> ErrValidation],
            links |-> tbl, nextId |-> nid, attempts |-> 0,
            tried |-> Undefined, db |-> DbNone]
      ELSE LET data == [originalUrl |-> input.url,
                        customCode |-> CustomCodeArg(input.customCode),
                        userId |-> session]
               db == createLinkInDb(tbl, nid, now, data, draw, fault)
           IN [response |-> IF db.err = DbOk
                              THEN [success |-> TRUE, data |-> db.rows[1]]
                              ELSE CatchResponse(db.err),
               links |-> db.links, nextId |-> db.nextId,
               attempts |-> db.attempts, tried |-> db.tried, db |-> db.err]

---------------------------------------------------------------------------
(* The redirect route: GET on the [shortcode] segment *)

\* String(new URL(url)): the serialised URL, which for the schemes that
\* name a host has "//" after the colon and a path of at least "/"
Href(s) ==
  LET k == ColonAt(s)
      rest == StripSlashes(SubSeq(s, k + 1, Len(s)))
  IN IF SubSeq(s, 1, k - 1) \in SpecialSchemes
       THEN SubSeq(s, 1, k) \o <<"/", "/">> \o rest
              \o (IF \E i \in 1..Len(rest) : rest[i] \in {"/", "?", "#"}
                    THEN <<>> ELSE <<"/">>)
       ELSE s

\* a redirect that answers 308
NextResponse_redirect_permanent(url) ==
  IF IsUrl(url)
    THEN [kind |-> "response", status |-> 308, location |-> Href(url)]
    ELSE RetThrow("URL is malformed")

\* NextResponse.redirect(url, { status: 307 }): the Location header is the
\* serialised URL; a text that does not parse as a URL is thrown
NextResponse_redirect(url) ==
  IF IsUrl(url)
    THEN [kind |-> "response", status |-> 307, location |-> Href(url)]
    ELSE RetThrow("URL is malformed")

\* NextResponse.json(body, { status })
NextResponse_json(status) == [kind |-> "response", status |-> status]

\* GET: fault is a lookup that throws
GET(tbl, shortcode, fault) ==
  IF shortcode = <<>>
    THEN NextResponse_json(400)
    ELSE IF fault
      THEN NextResponse_json(500)
      ELSE LET link == getLinkByShortCode(tbl, shortcode) IN
        IF link = RetNull
          THEN NextResponse_json(404)
          ELSE LET res == NextResponse_redirect(link.link.originalUrl) IN
            IF res.kind = "throw" THEN NextResponse_json(500) ELSE res

\* the same letters as CodeAbc in upper case
CodeABC == <<"A","B","C">>

\* path segments the route is asked for; the router matches the route
\* only with a segment that is not empty
ShortcodeParams == GenCodes \cup {CodeAbc, CodeABC, CodeAb}

---------------------------------------------------------------------------
(* The request middleware and the dashboard layout *)

IsPrefix(p, s) == Len(p) <= Len(s) /\ SubSeq(s, 1, Len(p)) = p

PathHome == <<"/">>
PathDashboard == <<"/","d","a","s","h","b","o","a","r","d">>
PathLinks == <<"/","l","i","n","k","s">>
PathProfile == <<"/","p","r","o","f","i","l","e">>

\* the patterns of createRouteMatcher, each a literal followed by (.*)
ProtectedPatterns == {PathDashboard, PathLinks, PathProfile}

\* isProtectedRoute: the pathname matches one of the patterns, that is it
\* starts with the literal; (.*) takes whatever follows
isProtectedRoute(pathname) ==
  \E lit \in ProtectedPatterns : IsPrefix(lit, pathname)

MwNext == [kind |-> "next"]
MwRedirect(pathname) == [kind |-> "redirect", pathname |-> pathname]

\* the clerkMiddleware callback
clerkMiddleware(pathname, userId) ==
  IF isProtectedRoute(pathname) /\ userId = NoUser
    THEN MwRedirect(PathHome) @@ [redirect_url |-> pathname]
    ELSE IF userId # NoUser /\ pathname = PathHome
      THEN MwRedirect(PathDashboard)
      ELSE MwNext

\* DashboardLayout: redirect("/") without a user, the children otherwise
DashboardLayout(userId) ==
  IF userId = NoUser THEN MwRedirect(PathHome) ELSE [kind |-> "children"]

\* the layout wraps app/dashboard and the segments below it
UnderDashboard(pathname) ==
  pathname = PathDashboard \/ IsPrefix(PathDashboard \o <<"/">>, pathname)

\* what follows the first segment in the pathnames asked for
PathTails ==
  { <<>>, <<"/">>, <<"/","x">>, <<"/","x","/","y">>, <<"x">>, <<"-","x">>,
    <<"/","s","e","t","t","i","n","g","s">> }

\* pathnames asked for: the home page, the protected literals, public
\* first segments, each with every tail
Pathnames ==
  {PathHome}
    \cup { first \o tail :
             first \in ProtectedPatterns
                         \cup { <<"/","l">>, <<"/","a","p","i">>,
                                <<"/","a","b","o","u","t">>,
                                <<"/","d","a","s","h">> },
             tail \in PathTails }

---------------------------------------------------------------------------
(* State *)

VARIABLES
  links,     \* the rows of the links table
  nextId,    \* next value of the serial sequence behind links.id
  clock,     \* the wall clock
  pc,        \* where each request stands
  req,       \* the arguments of the request in flight
  race,      \* createLink requests issued together, and their responses
  last,      \* the call that just returned: arguments, table before, result
  dialog     \* the state of the CreateLinkDialog component

vars == <<links, nextId, clock, pc, req, race, last, dialog>>

NoReq == [op |-> "none"]

\* error: string | null
NoError == "null"

\* defaultValues of the form
FormDefaults == [url |-> <<>>, customCode |-> <<>>]

\* the component as mounted: useState(false), useState(false),
\* useState(null), the form at its defaultValues; sent is the argument of
\* the createLink call in flight
DialogMounted ==
  [open |-> FALSE, isSubmitting |-> FALSE, error |-> NoError,
   form |-> FormDefaults, sent |-> FormDefaults]

Init ==
  /\ links = {}
  /\ nextId = 1
  /\ clock = 0
  /\ pc = [p \in Procs |-> "idle"]
  /\ req = [p \in Procs |-> NoReq]
  /\ race = [r \in Racers |-> NoReq]
  /\ last = NoReq
  /\ dialog = DialogMounted

---------------------------------------------------------------------------
(* Steps.  Every call records itself in last when it returns, and the     *)
(* record is taken by the caller (Return) before the next step.           *)

\* time passes
Tick ==
  /\ last = NoReq
  /\ clock < MaxClock
  /\ clock' = clock + 1
  /\ UNCHANGED <<links, nextId, pc, req, race, last, dialog>>

\* the caller takes the result of the call that just returned
Return ==
  /\ last # NoReq
  /\ last' = NoReq
  /\ UNCHANGED <<links, nextId, clock, pc, req, race, dialog>>

\* what a createLink call leaves in last; generated is the code the
\* generator returned first, Undefined when it was not called
CreateRecord(session, input, pre, generated, out) ==
  [op |-> "createLink", session |-> session, input |-> input, pre |-> pre,
   generated |-> generated, response |-> out.response,
   attempts |-> out.attempts, tried |-> out.tried, db |-> out.db]

\* a createLink request, start to finish, with its inputs drawn from the
\* given sets; Extras are values of a userId key that the client adds to
\* the input object, which CreateLinkInput does not declare
CreateLinkIn(Sessions, Urls, Codes, Faults, Extras) ==
  /\ last = NoReq
  /\ \E session \in Sessions, url \in Urls, cc \in Codes, extra \in Extras :
       LET input == [url |-> url, customCode |-> cc, userId |-> extra] IN
         IF session = NoUser \/ ~createLinkSchema(input)
           THEN LET out == createLink(links, nextId, clock, session, input,
                                      CHOOSE d \in RandomDraws : TRUE, FALSE)
                IN /\ last' = CreateRecord(session, input, links, Undefined,
                                           out)
                   /\ UNCHANGED <<links, nextId>>
           ELSE \E draw \in RandomDraws, fault \in Faults :
                  LET out == createLink(links, nextId, clock, session, input,
                                        draw, fault)
                  IN /\ nextId <= MaxLinks
                     /\ links' = out.links
                     /\ nextId' = out.nextId
                     /\ last' = CreateRecord(
                                   session, input, links,
                                   IF cc = Undefined \/ cc = <<>>
                                     THEN generateShortCode(draw)
                                     ELSE Undefined,
                                   out)
  /\ UNCHANGED <<clock, pc, req, race, dialog>>

CreateLink ==
  CreateLinkIn(Users \cup {NoUser}, UrlInputs, CustomCodeInputs, BOOLEAN,
               {Absent})

\* createLink requests over the edge cases of customCode
CreateLinkCodes ==
  CreateLinkIn(Users \cup {NoUser}, {UrlA, UrlNoScheme}, CodeCases, BOOLEAN,
               {Absent})

\* createLink requests whose input names a userId
CreateLinkOwner ==
  CreateLinkIn(Users, {UrlA}, {CodeAbc, CodePunct}, {FALSE},
               Users \cup {Absent})

\* createLink requests of signed-in callers that choose their code
CreateLinkCustom ==
  CreateLinkIn(Users, {UrlA}, {CodeAbc, CodePunct}, {FALSE}, {Absent})

\* one call of generateShortCode
GenerateShortCode ==
  /\ last = NoReq
  /\ \E draw \in GenDraws :
       last' = [op |-> "generateShortCode", draw |-> draw,
                result |-> generateShortCode(draw)]
  /\ UNCHANGED <<links, nextId, clock, pc, req, race, dialog>>

\* an updateLinkInDb call, start to finish
UpdateLinkIn(Ids, Datas, Callers, Faults) ==
  /\ last = NoReq
  /\ \E linkId \in Ids, data \in Datas, userId \in Callers, fault \in Faults :
       LET out == updateLinkInDb(links, clock, linkId, data, userId, fault)
       IN /\ links' = out.links
          /\ last' = [op |-> "updateLinkInDb", linkId |-> linkId,
                      data |-> data, userId |-> userId, pre |-> links,
                      ret |-> out.ret]
  /\ UNCHANGED <<nextId, clock, pc, req, race, dialog>>

UpdateLink == UpdateLinkIn(1..MaxLinks, Patches, Users, BOOLEAN)

\* deleteLinkInDb, first statement: select the row and compare the owner
DeleteSelectIn(p, Ids, Callers, Faults) ==
  /\ last = NoReq
  /\ pc[p] = "idle"
  /\ \E linkId \in Ids, userId \in Callers, fault \in Faults :
       LET existingLink == DbSelectById(links, linkId)
           call == [op |-> "deleteLinkInDb", linkId |-> linkId,
                    userId |-> userId, pre |-> links]
       IN IF fault
            THEN /\ last' = call @@ [ret |-> RetThrow(DbFault)]
                 /\ UNCHANGED <<pc, req>>
            ELSE IF \/ existingLink = {}
                    \/ \E r \in existingLink : r.userId # userId
              THEN /\ last' = call @@ [ret |-> RetBool(FALSE)]
                   /\ UNCHANGED <<pc, req>>
              ELSE /\ pc' = [pc EXCEPT ![p] = "delete"]
                   /\ req' = [req EXCEPT ![p] =
                                [op |-> "deleteLinkInDb", linkId |-> linkId,
                                 userId |-> userId]]
                   /\ UNCHANGED last
  /\ UNCHANGED <<links, nextId, clock, race, dialog>>

DeleteSelect(p) == DeleteSelectIn(p, 1..MaxLinks, Users, BOOLEAN)

\* deleteLinkInDb, second statement: delete by id and return true
DeleteExecIn(p, Faults) ==
  /\ last = NoReq
  /\ pc[p] = "delete"
  /\ \E fault \in Faults :
       LET call == [op |-> "deleteLinkInDb", linkId |-> req[p].linkId,
                    userId |-> req[p].userId, pre |-> links]
       IN IF fault
            THEN /\ last' = call @@ [ret |-> RetThrow(DbFault)]
                 /\ UNCHANGED links
            ELSE /\ last' = call @@ [ret |-> RetBool(TRUE)]
                 /\ links' = DbDeleteById(links, req[p].linkId)
  /\ pc' = [pc EXCEPT ![p] = "idle"]
  /\ req' = [req EXCEPT ![p] = NoReq]
  /\ UNCHANGED <<nextId, clock, race, dialog>>

DeleteExec(p) == DeleteExecIn(p, BOOLEAN)

\* a getCurrentUserLinks call
GetCurrentUserLinks ==
  /\ last = NoReq
  /\ \E session \in Users \cup {NoUser}, fault \in BOOLEAN :
       \E ret \in getCurrentUserLinks(links, session, fault) :
         last' = [op |-> "getCurrentUserLinks", userId |-> session,
                  pre |-> links, ret |-> ret]
  /\ UNCHANGED <<links, nextId, clock, pc, req, race, dialog>>

\* the dashboard page of a signed-in user reads its list
GetUserLinks ==
  /\ last = NoReq
  /\ \E userId \in Users, fault \in BOOLEAN :
       \E ret \in getUserLinks(links, userId, fault) :
         last' = [op |-> "getUserLinks", userId |-> userId,
                  pre |-> links, ret |-> ret]
  /\ UNCHANGED <<links, nextId, clock, pc, req, race, dialog>>

\* a visitor asks for a short code
Redirect ==
  /\ last = NoReq
  /\ \E shortcode \in ShortcodeParams, fault \in BOOLEAN :
       last' = [op |-> "GET", shortcode |-> shortcode, threw |-> fault,
                pre |-> links, response |-> GET(links, shortcode, fault)]
  /\ UNCHANGED <<links, nextId, clock, pc, req, race, dialog>>

\* the calls, with every statement reading the same clock value
Next ==
  \/ CreateLink
  \/ UpdateLink
  \/ \E p \in Procs : DeleteSelect(p)
  \/ \E p \in Procs : DeleteExec(p)
  \/ GetCurrentUserLinks
  \/ GetUserLinks
  \/ Redirect
  \/ Return

Spec == Init /\ [][Next]_vars

\* the calls, with time passing between them
NextTimed ==
  \/ Tick
  \/ CreateLink
  \/ UpdateLink
  \/ \E p \in Procs : DeleteSelect(p)
  \/ \E p \in Procs : DeleteExec(p)
  \/ GetCurrentUserLinks
  \/ GetUserLinks
  \/ Redirect
  \/ Return

SpecTimed == Init /\ [][NextTimed]_vars

NextCodes ==
  \/ CreateLinkCodes
  \/ Return

SpecCodes == Init /\ [][NextCodes]_vars

NextOwner ==
  \/ CreateLinkOwner
  \/ UpdateLink
  \/ \E p \in Procs : DeleteSelect(p)
  \/ \E p \in Procs : DeleteExec(p)
  \/ Return

SpecOwner == Init /\ [][NextOwner]_vars

NextUpdate ==
  \/ Tick
  \/ CreateLinkCustom
  \/ UpdateLink
  \/ Return

SpecUpdate == Init /\ [][NextUpdate]_vars

\* a page request: the middleware runs, and when it lets the request
\* through to a route under app/dashboard the layout runs
PageRequest ==
  /\ last = NoReq
  /\ \E pathname \in Pathnames, session \in Users \cup {NoUser} :
       LET mw == clerkMiddleware(pathname, session) IN
         last' = [op |-> "request", pathname |-> pathname,
                  session |-> session, middleware |-> mw,
                  layout |-> IF mw = MwNext /\ UnderDashboard(pathname)
                               THEN DashboardLayout(session)
                               ELSE [kind |-> "none"]]
  /\ UNCHANGED <<links, nextId, clock, pc, req, race, dialog>>

NextRoutes ==
  \/ PageRequest
  \/ Return

SpecRoutes == Init /\ [][NextRoutes]_vars

NextGenerate ==
  \/ GenerateShortCode
  \/ Return

SpecGenerate == Init /\ [][NextGenerate]_vars

---------------------------------------------------------------------------
(* Concurrent createLink requests for one custom code.  Each request     *)
(* reaches the table in its single insert statement, so the requests     *)
(* that are in flight together resolve in some order of their inserts.   *)

\* tables the race may start from: empty, or holding one generated link
RaceTables ==
  { {},
    { [id |-> 1, userId |-> "user_1", originalUrl |-> UrlA,
       shortCode |-> generateShortCode(CHOOSE d \in RandomDraws : TRUE),
       createdAt |-> 0, updatedAt |-> 0] } }

\* the custom code all racers ask for
RaceCode == CodeAbc

InitRace ==
  /\ links \in RaceTables
  /\ nextId = Cardinality(links) + 1
  /\ clock = 0
  /\ pc = [p \in Procs |-> "idle"]
  /\ req = [p \in Procs |-> NoReq]
  /\ race \in [Racers -> { [op |-> "createLink", state |-> "pending",
                            session |-> u,
                            input |-> [url |-> url, customCode |-> RaceCode]] :
                             u \in Users, url \in GoodUrls }]
  /\ last = NoReq
  /\ dialog = DialogMounted

\* a request that starts over whenever its insert fails
RaceCreateLink_again(r) ==
  /\ race[r].state = "pending"
  /\ \E draw \in RandomDraws, fault \in BOOLEAN :
       LET out == createLink(links, nextId, clock, race[r].session,
                             race[r].input, draw, fault)
       IN IF out.db \in {DbUnique, DbFault}
            THEN UNCHANGED <<links, nextId, race, dialog>>
            ELSE /\ links' = out.links
                 /\ nextId' = out.nextId
                 /\ race' = [race EXCEPT ![r] =
                               [op |-> "createLink", state |-> "done",
                                session |-> race[r].session,
                                input |-> race[r].input,
                                response |-> out.response, db |-> out.db,
                                attempts |-> out.attempts]]
  /\ UNCHANGED <<clock, pc, req, last, dialog>>

\* the createLink request of racer r runs, start to finish
RaceCreateLink(r) ==
  /\ race[r].state = "pending"
  /\ \E draw \in RandomDraws, fault \in BOOLEAN :
       LET out == createLink(links, nextId, clock, race[r].session,
                             race[r].input, draw, fault)
       IN /\ links' = out.links
          /\ nextId' = out.nextId
          /\ race' = [race EXCEPT ![r] =
                        [op |-> "createLink", state |-> "done",
                         session |-> race[r].session,
                         input |-> race[r].input,
                         response |-> out.response, db |-> out.db,
                         attempts |-> out.attempts]]
  /\ UNCHANGED <<clock, pc, req, last, dialog>>

NextRace == \E r \in Racers : RaceCreateLink(r)

SpecRace == InitRace /\ [][NextRace]_vars

\* the same requests, each of which the server keeps running
SpecRaceFair ==
  InitRace /\ [][NextRace]_vars /\ \A r \in Racers : WF_vars(RaceCreateLink(r))

---------------------------------------------------------------------------
(* Two calls by the owner on the same link, issued together: an update   *)
(* and a delete, or two updates.  race.r3 keeps the table they started   *)
(* from.                                                                  *)

PairLink ==
  [id |-> 1, userId |-> "user_1", originalUrl |-> UrlA,
   shortCode |-> generateShortCode(CHOOSE d \in RandomDraws : TRUE),
   createdAt |-> 0, updatedAt |-> 0]

\* another link, which holds the code that the patches name
PairOther(u) ==
  [id |-> 2, userId |-> u, originalUrl |-> UrlB, shortCode |-> CodeAbc,
   createdAt |-> 0, updatedAt |-> 0]

PairTables == {{PairLink}} \cup {{PairLink, PairOther(u)} : u \in Users}

PairUpdates ==
  { [op |-> "updateLinkInDb", state |-> "pending", linkId |-> PairLink.id,
     userId |-> PairLink.userId, data |-> d] : d \in Patches }

PairDelete ==
  [op |-> "deleteLinkInDb", state |-> "pending", linkId |-> PairLink.id,
   userId |-> PairLink.userId]

Pair == {"r1", "r2"}

InitPair ==
  /\ links \in PairTables
  /\ nextId = Cardinality(links) + 1
  /\ clock = 0
  /\ pc = [p \in Procs |-> "idle"]
  /\ req = [p \in Procs |-> NoReq]
  /\ \E a \in PairUpdates, b \in PairUpdates \cup {PairDelete} :
       race = [r \in Racers |->
                 IF r = "r1" THEN a
                 ELSE IF r = "r2" THEN b
                 ELSE [op |-> "start", links |-> links]]
  /\ last = NoReq
  /\ dialog = DialogMounted

\* an update that writes the row as it was when the calls were issued,
\* patched
PairUpdateLink_stale(r) ==
  /\ race[r].op = "updateLinkInDb"
  /\ race[r].state = "pending"
  /\ LET out == updateLinkInDb(race["r3"].links, clock, race[r].linkId,
                               race[r].data, race[r].userId, FALSE)
     IN /\ links' = DbDeleteById(links, race[r].linkId)
                       \cup DbSelectById(out.links, race[r].linkId)
        /\ race' = [race EXCEPT ![r] =
                      [@ EXCEPT !.state = "done"]
                        @@ [ret |-> out.ret, at |-> clock, pre |-> links]]
  /\ UNCHANGED <<nextId, clock, pc, req, last, dialog>>

\* the updateLinkInDb call of r runs: one statement
PairUpdateLink(r) ==
  /\ race[r].op = "updateLinkInDb"
  /\ race[r].state = "pending"
  /\ LET out == updateLinkInDb(links, clock, race[r].linkId, race[r].data,
                               race[r].userId, FALSE)
     IN /\ links' = out.links
        /\ race' = [race EXCEPT ![r] =
                      [@ EXCEPT !.state = "done"]
                        @@ [ret |-> out.ret, at |-> clock, pre |-> links]]
  /\ UNCHANGED <<nextId, clock, pc, req, last, dialog>>

\* the deleteLinkInDb call of r, first statement
PairDeleteSelect(r) ==
  /\ race[r].op = "deleteLinkInDb"
  /\ race[r].state = "pending"
  /\ LET existingLink == DbSelectById(links, race[r].linkId) IN
       IF \/ existingLink = {}
          \/ \E l \in existingLink : l.userId # race[r].userId
         THEN race' = [race EXCEPT ![r] =
                         [@ EXCEPT !.state = "done"]
                           @@ [ret |-> RetBool(FALSE), selectedAt |-> clock,
                               at |-> clock]]
         ELSE race' = [race EXCEPT ![r] =
                         [@ EXCEPT !.state = "selected"]
                           @@ [selectedAt |-> clock]]
  /\ UNCHANGED <<links, nextId, clock, pc, req, last, dialog>>

\* the deleteLinkInDb call of r, second statement
PairDeleteExec(r) ==
  /\ race[r].op = "deleteLinkInDb"
  /\ race[r].state = "selected"
  /\ links' = DbDeleteById(links, race[r].linkId)
  /\ race' = [race EXCEPT ![r] =
                [@ EXCEPT !.state = "done"]
                  @@ [ret |-> RetBool(TRUE), at |-> clock]]
  /\ UNCHANGED <<nextId, clock, pc, req, last, dialog>>

NextPair ==
  \/ Tick
  \/ \E r \in Pair : PairUpdateLink(r)
  \/ \E r \in Pair : PairDeleteSelect(r)
  \/ \E r \in Pair : PairDeleteExec(r)

SpecPair == InitPair /\ [][NextPair]_vars

---------------------------------------------------------------------------
(* The create-link dialog.  The table changes only through the dialog's  *)
(* submits, made by one signed-in user.                                   *)

DialogUser == "user_1"

\* formSchema of the dialog: the rules of createLinkSchema
formSchema(values) == IsUrl(values.url) /\ IsCustomCode(values.customCode)

\* what the user types into the two fields
FormInputs ==
  [url : {UrlA, UrlNoScheme}, customCode : {<<>>, CodeAbc}]

\* handleOpenChange(newOpen)
handleOpenChange(d, newOpen) ==
  IF newOpen
    THEN [d EXCEPT !.open = TRUE]
    ELSE [d EXCEPT !.open = FALSE, !.form = FormDefaults, !.error = NoError]

\* the trigger button: the Dialog calls onOpenChange(true)
DialogTrigger ==
  /\ ~dialog.open
  /\ dialog' = handleOpenChange(dialog, TRUE)
  /\ UNCHANGED <<links, nextId, clock, pc, req, race, last>>

\* Escape, a click outside or the close icon: the Dialog calls
\* onOpenChange(false); none of them is disabled while a submit is in flight
DialogDismiss ==
  /\ dialog.open
  /\ dialog' = handleOpenChange(dialog, FALSE)
  /\ UNCHANGED <<links, nextId, clock, pc, req, race, last>>

\* the Cancel button: onClick={() => setOpen(false)}, disabled while
\* submitting
DialogCancel ==
  /\ dialog.open
  /\ ~dialog.isSubmitting
  /\ dialog' = [dialog EXCEPT !.open = FALSE]
  /\ UNCHANGED <<links, nextId, clock, pc, req, race, last>>

\* typing into the fields, which are disabled while submitting
DialogType ==
  /\ dialog.open
  /\ ~dialog.isSubmitting
  /\ \E values \in FormInputs :
       /\ values # dialog.form
       /\ dialog' = [dialog EXCEPT !.form = values]
  /\ UNCHANGED <<links, nextId, clock, pc, req, race, last>>

\* the submit button with values the resolver accepts: onSubmit up to its
\* await
DialogSubmit ==
  /\ dialog.open
  /\ ~dialog.isSubmitting
  /\ formSchema(dialog.form)
  /\ dialog' = [dialog EXCEPT !.isSubmitting = TRUE, !.error = NoError,
                              !.sent = dialog.form]
  /\ UNCHANGED <<links, nextId, clock, pc, req, race, last>>

\* createLink runs on the server and onSubmit resumes after its await
DialogSettle ==
  /\ dialog.isSubmitting
  /\ nextId <= MaxLinks
  /\ \E draw \in RandomDraws, fault \in BOOLEAN :
       LET input == [url |-> dialog.sent.url,
                     customCode |-> dialog.sent.customCode,
                     userId |-> Absent]
           out == createLink(links, nextId, clock, DialogUser, input, draw,
                             fault)
       IN /\ links' = out.links
          /\ nextId' = out.nextId
          /\ dialog' =
               IF ~out.response.success
                 THEN [dialog EXCEPT !.isSubmitting = FALSE,
                                     !.error = out.response.error,
                                     !.sent = FormDefaults]
                 ELSE [dialog EXCEPT !.isSubmitting = FALSE,
                                     !.open = FALSE,
                                     !.form = FormDefaults,
                                     !.sent = FormDefaults]
  /\ UNCHANGED <<clock, pc, req, race, last>>

NextDialog ==
  \/ DialogTrigger
  \/ DialogDismiss
  \/ DialogCancel
  \/ DialogType
  \/ DialogSubmit
  \/ DialogSettle

SpecDialog == Init /\ [][NextDialog]_vars

---------------------------------------------------------------------------
(* Well-formedness of the state *)

TypeOK ==
  /\ nextId \in 1..(MaxLinks + 1)
  /\ clock \in 0..MaxClock
  /\ \A r \in links :
       /\ r.id \in 1..(nextId - 1)
       /\ r.userId \in Users
       /\ r.createdAt <= r.updatedAt
       /\ r.updatedAt <= clock
  /\ \A p \in Procs : pc[p] \in {"idle", "delete"}

---------------------------------------------------------------------------
(* Properties *)

ShortCodes(tbl) == {r.shortCode : r \in tbl}
BadUrls == {UrlNoScheme, UrlNoHost}

\* the createLink call that just returned came from a signed-in caller
\* with input that fits createLinkSchema
ReachedStorage ==
  /\ last.op = "createLink"
  /\ last.session \in Users
  /\ last.input.url \in GoodUrls
  /\ last.input.customCode \in {Undefined, <<>>, CodeAbc}

\* C1: after any sequence and interleaving of create, update and delete
\* calls, no two rows of the links table have the same shortCode.
C1_ShortCodeUnique ==
  \A r1, r2 \in links : r1.shortCode = r2.shortCode => r1 = r2

\* two links exist and a write that would have duplicated a code was
\* rejected
C1_Witness ==
  /\ Cardinality(links) = 2
  /\ last.op = "updateLinkInDb"
  /\ last.ret = RetThrow(DbUnique)

\* C2: an update by a principal that does not own the link returns null
\* and leaves every column of the link as it was.
C2_NonOwnerUpdateIsRefused ==
  ( /\ last.op = "updateLinkInDb"
    /\ last.ret.kind # "throw"
    /\ \E r \in last.pre : r.id = last.linkId /\ r.userId # last.userId )
  => /\ last.ret = RetNull
     /\ links = last.pre

\* C3: delete returns true exactly when a row with that id and owner
\* existed and the call removed it; when it returns false the table is
\* unchanged and the link is still found by its shortCode.
C3_DeleteTrueIffRemoved ==
  (last.op = "deleteLinkInDb" /\ last.ret.kind = "bool") =>
    LET owned == {r \in last.pre :
                    r.id = last.linkId /\ r.userId = last.userId}
    IN /\ last.ret.value = (owned # {} /\ owned \cap links = {})
       /\ ~last.ret.value =>
            /\ links = last.pre
            /\ \A r \in last.pre :
                 r.id = last.linkId =>
                   getLinkByShortCode(links, r.shortCode) = RetLink(r)

\* C4: a create request whose customCode is already used by a link fails
\* with the conflict error after a single insert attempt carrying that
\* code; it never succeeds under another code and inserts no row.
C4_CustomCodeConflict ==
  ( /\ ReachedStorage
    /\ last.input.customCode = CodeAbc
    /\ CodeAbc \in ShortCodes(last.pre) )
  => /\ ~last.response.success
     /\ last.attempts = 1
     /\ last.tried = CodeAbc
     /\ last.db # DbFault => last.response.error = ErrCodeInUse
     /\ links = last.pre

C4_Witness ==
  /\ ReachedStorage
  /\ last.input.customCode = CodeAbc
  /\ CodeAbc \in ShortCodes(last.pre)
  /\ last.response.error = ErrCodeInUse

\* the createLink call that just returned left the code to the generator
\* and the code generated first is held by an existing link
GeneratedCollided ==
  /\ ReachedStorage
  /\ last.input.customCode \in {Undefined, <<>>}
  /\ last.generated \in ShortCodes(last.pre)
  /\ last.db # DbFault

\* C5, as claimed: when every generated code collides, create makes
\* exactly 5 insert attempts and then fails with the storage error.
C5_FiveAttemptsThenStorageError ==
  (GeneratedCollided /\ last.db = DbUnique) =>
    /\ last.attempts = 5
    /\ last.response = [success |-> FALSE, error |-> ErrGeneric]

\* C5, amended: when the generated code collides, create makes exactly one
\* insert attempt and fails with the conflict error.
C5_OneAttemptThenConflict ==
  GeneratedCollided =>
    /\ last.attempts = 1
    /\ last.response = [success |-> FALSE, error |-> ErrCodeInUse]

C5_Witness ==
  /\ GeneratedCollided
  /\ last.response.error = ErrCodeInUse
  /\ last.attempts = 1

\* a code the generator can return was free when the call was made
FreeCodeExisted == GenCodes \ ShortCodes(last.pre) # {}

\* C6, as claimed: when the first generated code collides and another
\* generated code is free, create regenerates, retries and succeeds with a
\* link stored under the free code.
C6_RetrySucceeds ==
  (GeneratedCollided /\ FreeCodeExisted) =>
    /\ last.response.success
    /\ last.response.data \in links
    /\ last.response.data.shortCode \notin ShortCodes(last.pre)

\* C6, amended: when the first generated code collides, create does not
\* generate again: the call fails and stores no link, also when another
\* generated code is free.
C6_NoRetry ==
  (GeneratedCollided /\ FreeCodeExisted) =>
    /\ ~last.response.success
    /\ last.tried = last.generated
    /\ links = last.pre

C6_Witness ==
  /\ GeneratedCollided
  /\ FreeCodeExisted
  /\ ~last.response.success
  /\ links = last.pre

\* the originalUrl that the lookup by the link's shortCode returns
LookupUrl(tbl, r) == getLinkByShortCode(tbl, r.shortCode).link.originalUrl

\* C7: for every existing link, the lookup by its shortCode returns a
\* record whose originalUrl is the one supplied at creation or, if the
\* owner has updated it since, by the owner's latest successful update.
\* Call by call: a created link is found with the URL supplied, an update
\* by the owner that names a URL makes the lookup return that URL, and
\* any other call leaves the URL that the lookup returns as it was.
C7_LookupReturnsOwnersUrl ==
  /\ (last.op = "createLink" /\ last.response.success) =>
       LookupUrl(links, last.response.data) = last.input.url
  /\ last.op \in {"createLink", "updateLinkInDb", "deleteLinkInDb"} =>
       \A r \in links : \A q \in last.pre :
         r.id = q.id =>
           LookupUrl(links, r) =
             IF /\ last.op = "updateLinkInDb"
                /\ last.linkId = q.id
                /\ last.userId = q.userId
                /\ last.ret.kind = "link"
                /\ last.data.originalUrl # Undefined
               THEN last.data.originalUrl
               ELSE LookupUrl(last.pre, q)

\* the racers that have their response
Finished == {r \in Racers : race[r].state = "done"}
Won == {r \in Finished : race[r].response.success}
Lost == {r \in Finished : ~race[r].response.success
                           /\ race[r].response.error = ErrCodeInUse}
Faulted == {r \in Finished : race[r].db = DbFault}

\* C8: among concurrent create requests for the same unused customCode,
\* exactly one succeeds and every other one fails with the conflict error
\* (a request whose insert statement met a storage fault aside).
C8_ExactlyOneWins ==
  /\ Cardinality(Won) <= 1
  /\ Finished = Won \cup Lost \cup Faulted
  /\ Finished \ Faulted # {} => Cardinality(Won) = 1

C8_Witness ==
  /\ Finished = Racers
  /\ Faulted = {}
  /\ Cardinality(Won) = 1
  /\ Cardinality(Lost) = Cardinality(Racers) - 1

\* C9: for a caller that does not own the target, update has the same
\* outcome whether the link exists and belongs to someone else or does not
\* exist at all, for every patch.
C9_AbsentAndForeignAlike ==
  ( /\ last.op = "updateLinkInDb"
    /\ last.ret # RetThrow(DbFault)
    /\ \E r \in last.pre : r.id = last.linkId /\ r.userId # last.userId )
  => last.ret = updateLinkInDb(DbDeleteById(last.pre, last.linkId), clock,
                               last.linkId, last.data, last.userId,
                               FALSE).ret

\* C10: a create request whose url is not an absolute URL is rejected with
\* the validation failure, no insert is attempted and the table is
\* unchanged.
C10_InvalidUrlRejected ==
  ( /\ last.op = "createLink"
    /\ last.session \in Users
    /\ last.input.url \in BadUrls )
  => /\ last.response = [success |-> FALSE, error |-> ErrValidation]
     /\ last.attempts = 0
     /\ last.db = DbNone
     /\ links = last.pre

C10_Witness ==
  /\ last.op = "createLink"
  /\ last.session \in Users
  /\ last.input.url \in BadUrls
  /\ last.response.error = ErrValidation
  /\ links # {}

\* ^[A-Za-z0-9_-]{3,20}$
PatternChars ==
  {"a","b","c","d","e","f","g","h","i","j","k","l","m","n","o","p","q","r",
   "s","t","u","v","w","x","y","z","A","B","C","D","E","F","G","H","I","J",
   "K","L","M","N","O","P","Q","R","S","T","U","V","W","X","Y","Z","0","1",
   "2","3","4","5","6","7","8","9","_","-"}
MatchesPattern(c) ==
  /\ Len(c) >= 3
  /\ Len(c) <= 20
  /\ \A i \in 1..Len(c) : c[i] \in PatternChars

\* the createLink call that just returned came from a signed-in caller
\* with a valid url and a customCode that is not empty
GaveCustomCode ==
  /\ last.op = "createLink"
  /\ last.session \in Users
  /\ last.input.url = UrlA
  /\ last.input.customCode \notin {Undefined, <<>>}

\* C11: a create request with a non-empty customCode passes validation
\* only if the code is 3 to 20 characters of [A-Za-z0-9_-]; any other
\* non-empty customCode gets the validation failure and no row is inserted,
\* so every stored caller-chosen shortCode matches ^[A-Za-z0-9_-]{3,20}$.
C11_CustomCodePattern ==
  GaveCustomCode =>
    /\ (last.response.success \/ last.attempts > 0)
         => MatchesPattern(last.input.customCode)
    /\ ~MatchesPattern(last.input.customCode) =>
         /\ last.response = [success |-> FALSE, error |-> ErrValidation]
         /\ last.attempts = 0
         /\ links = last.pre
    /\ \A r \in links \ last.pre : MatchesPattern(r.shortCode)

\* the longest code allowed is stored, and a code one character longer
\* is then refused
C11_Witness ==
  /\ GaveCustomCode
  /\ last.input.customCode = CodeTooLong
  /\ last.response.error = ErrValidation
  /\ CodeLongest \in ShortCodes(links)
  /\ CodePunct \in ShortCodes(links)

\* [a-zA-Z0-9]
Alphanumerics == PatternChars \ {"_", "-"}

\* C12: every code the generator returns has exactly 8 characters, each
\* from the 62-character alphabet [a-zA-Z0-9], so it also fits the
\* shortCode constraint; the generator returns a code for every outcome of
\* the random source.
C12_GeneratedCodeShape ==
  last.op = "generateShortCode" =>
    /\ Len(last.result) = 8
    /\ \A i \in 1..Len(last.result) : last.result[i] \in Alphanumerics
    /\ Cardinality(Alphanumerics) = 62
    /\ MatchesPattern(last.result)
    /\ \A i \in 1..Len(last.result) :
         last.result[i] = chars[last.draw[i] + 1]

\* the last symbol of the alphabet drawn at the last position
C12_Witness ==
  /\ last.op = "generateShortCode"
  /\ last.result = <<"a","a","a","a","a","a","a","9">>

\* a listing call returned a list
Listed ==
  /\ last.op \in {"getCurrentUserLinks", "getUserLinks"}
  /\ last.ret.kind = "list"

\* C13: the list of an owner's links is ordered by most recently updated
\* first: of two consecutive links the earlier one's updatedAt is not older
\* than the later one's, also after an update has refreshed an older
\* link's updatedAt (links created at the same instant, which the page may
\* list in either order, aside).
C13_ListedLatestUpdateFirst ==
  ( /\ Listed
    /\ \A i, j \in 1..Len(last.ret.rows) :
         i # j => last.ret.rows[i].createdAt # last.ret.rows[j].createdAt )
  => \A i \in 1..(Len(last.ret.rows) - 1) :
       last.ret.rows[i].updatedAt >= last.ret.rows[i + 1].updatedAt

\* the same order, asked of getCurrentUserLinks alone
ListedByUpdatedAt ==
  (Listed /\ last.op = "getCurrentUserLinks") =>
    \A i \in 1..(Len(last.ret.rows) - 1) :
      last.ret.rows[i].updatedAt >= last.ret.rows[i + 1].updatedAt

\* C14: the list of an owner's links holds exactly the existing links of
\* that owner, each once: no link of another principal, none of the
\* owner's links missing, and the empty sequence when the owner has none.
C14_ListedExactlyOwnersLinks ==
  ( /\ last.op \in {"getCurrentUserLinks", "getUserLinks"}
    /\ last.userId \in Users
    /\ last.ret # RetThrow(DbFault) )
  => /\ last.ret.kind = "list"
     /\ Range(last.ret.rows) = {r \in links : r.userId = last.userId}
     /\ Len(last.ret.rows) = Cardinality(Range(last.ret.rows))
     /\ (\A r \in links : r.userId # last.userId) => last.ret.rows = <<>>

\* one principal gets its single link while another principal has one,
\* too
C14_Witness ==
  /\ Listed
  /\ Len(last.ret.rows) = 1
  /\ Cardinality(links) = 2
  /\ \E r \in links : r.userId # last.userId

\* the rows stored under the short code the visitor asked for
Stored == {r \in links : r.shortCode = last.shortcode}

\* C15: the redirect handler answers every request with exactly one of: a
\* 307 redirect to the stored originalUrl when the shortCode exists, 404
\* when it does not, 500 when the lookup throws; the Location is never a
\* URL other than the one stored for that shortCode (it is that URL as
\* written or in serialised form, with the path "/").
C15_RedirectOutcomes ==
  last.op = "GET" =>
    /\ last.response.status \in {307, 404, 500}
    /\ last.threw <=> last.response.status = 500
    /\ (~last.threw /\ Stored = {}) <=> last.response.status = 404
    /\ (~last.threw /\ Stored # {}) <=> last.response.status = 307
    /\ last.response.status = 307 =>
         \A r \in Stored :
           last.response.location \in
             {r.originalUrl, r.originalUrl \o <<"/">>}

\* with two links stored, a visitor is sent to the URL stored under the
\* code asked for
C15_Witness ==
  /\ last.op = "GET"
  /\ last.shortcode = CodeAbc
  /\ last.response.status = 307
  /\ last.response.location = UrlB \o <<"/">>
  /\ \E r \in links : r.shortCode # CodeAbc /\ r.originalUrl = UrlA

\* C16: createLink never hands an exception to its caller: for every input
\* and every outcome of the insert (success, uniqueness violation, any
\* other storage fault) it resolves to an ActionResponse, success = true
\* with data on success and success = false with a non-empty error string
\* otherwise.
C16_AlwaysActionResponse ==
  last.op = "createLink" =>
    /\ DOMAIN last.response \in {{"success", "data"}, {"success", "error"}}
    /\ last.response.success \in BOOLEAN
    /\ last.response.success <=> DOMAIN last.response = {"success", "data"}
    /\ last.response.success <=> last.db = DbOk
    /\ last.response.success => last.response.data \in links
    /\ ~last.response.success =>
         /\ last.response.error # ""
         /\ last.response.error \in
              {ErrUnauthorized, ErrValidation, ErrCodeInUse, ErrGeneric}

\* the insert statement met a storage fault and the caller got a response
C16_Witness ==
  /\ ReachedStorage
  /\ last.db = DbFault
  /\ last.response = [success |-> FALSE, error |-> ErrGeneric]

\* C17: createLink checks the session before the input and before the
\* table: a request without a signed-in user gets the unauthorized error,
\* also when its input is invalid, and no insert is made for it.
C17_AuthenticationFirst ==
  (last.op = "createLink" /\ last.session = NoUser) =>
    /\ last.response = [success |-> FALSE, error |-> ErrUnauthorized]
    /\ last.attempts = 0
    /\ last.db = DbNone
    /\ links = last.pre

\* a request with no session, a text that is no URL and a code too short
C17_Witness ==
  /\ last.op = "createLink"
  /\ last.session = NoUser
  /\ last.input.url \in BadUrls
  /\ last.input.customCode = CodeAb
  /\ last.response.error = ErrUnauthorized
  /\ links # {}

\* C18: the userId stored on a created link is the signed-in identity of
\* the caller that made the request, never a value of the request input,
\* and no later call changes it.
C18_OwnerIsCaller ==
  /\ (last.op = "createLink" /\ last.response.success) =>
       /\ last.response.data.userId = last.session
       /\ \A r \in links \ last.pre : r.userId = last.session
  /\ last.op \in {"createLink", "updateLinkInDb", "deleteLinkInDb"} =>
       \A r \in links : \A q \in last.pre :
         r.id = q.id => r.userId = q.userId

\* a link was created by a request whose input named another user
C18_Witness ==
  /\ last.op = "createLink"
  /\ last.response.success
  /\ last.input.userId \in Users \ {last.session}
  /\ last.pre # {}

\* the updateLinkInDb call that just returned was made by the owner of the
\* link, with a patch whose shortCode another link holds
OwnerPatchCollided ==
  /\ last.op = "updateLinkInDb"
  /\ last.ret # RetThrow(DbFault)
  /\ last.data.shortCode = CodeAbc
  /\ \E q \in last.pre : q.id = last.linkId /\ q.userId = last.userId
  /\ \E o \in last.pre : o.id # last.linkId /\ o.shortCode = CodeAbc

\* C19: an update by the owner whose patch sets shortCode to a code that
\* another link uses fails with the uniqueness error, without a retry or
\* another code in its place, and leaves both links unchanged.
C19_UpdateConflict ==
  OwnerPatchCollided =>
    /\ last.ret = RetThrow(DbUnique)
    /\ links = last.pre

\* the refused patch also named a URL
C19_Witness ==
  /\ OwnerPatchCollided
  /\ last.data.originalUrl # Undefined
  /\ last.ret = RetThrow(DbUnique)

\* C20: a successful update by the owner changes only the fields the
\* patch names and refreshes updatedAt; id, userId and createdAt of the
\* link and every other row are unchanged, and the record returned is the
\* row stored.
C20_UpdateFrame ==
  (last.op = "updateLinkInDb" /\ last.ret.kind = "link") =>
    \E q \in last.pre :
      LET r == last.ret.link IN
        /\ q.id = last.linkId
        /\ q.userId = last.userId
        /\ r \in links
        /\ links \ {r} = last.pre \ {q}
        /\ r.id = q.id
        /\ r.userId = q.userId
        /\ r.createdAt = q.createdAt
        /\ r.updatedAt = clock
        /\ r.originalUrl = IF last.data.originalUrl # Undefined
                             THEN last.data.originalUrl ELSE q.originalUrl
        /\ r.shortCode = IF last.data.shortCode # Undefined
                           THEN last.data.shortCode ELSE q.shortCode

\* an update, later than the creation, of one of two links
C20_Witness ==
  /\ last.op = "updateLinkInDb"
  /\ last.ret.kind = "link"
  /\ last.data.shortCode = Undefined
  /\ last.ret.link.createdAt < last.ret.link.updatedAt
  /\ \E q \in last.pre : q.id = last.linkId /\ q.updatedAt < clock
  /\ Cardinality(links) = 2

\* the pathname is /dashboard, /links, /profile or a sub-path of one
ProtectedPath(pathname) ==
  \E base \in {PathDashboard, PathLinks, PathProfile} :
    pathname = base \/ IsPrefix(base \o <<"/">>, pathname)

\* the request got to the route it asked for
Reached ==
  /\ last.middleware.kind = "next"
  /\ last.layout.kind # "redirect"

\* C21: the middleware redirects an unauthenticated request for a
\* protected route (/dashboard, /links, /profile and their sub-paths) to
\* the home page, redirects an authenticated request for exactly "/" to
\* /dashboard, and lets every other request pass; an unauthenticated
\* visitor never reaches a protected route.
C21_MiddlewareRouting ==
  last.op = "request" =>
    /\ last.middleware.kind \in {"redirect", "next"}
    /\ (last.session = NoUser /\ ProtectedPath(last.pathname)) =>
         /\ last.middleware.kind = "redirect"
         /\ last.middleware.pathname = PathHome
         /\ ~Reached
    /\ (last.session # NoUser /\ last.pathname = PathHome) =>
         /\ last.middleware.kind = "redirect"
         /\ last.middleware.pathname = PathDashboard
    /\ ( /\ ~(last.session = NoUser /\ ProtectedPath(last.pathname))
         /\ ~(last.session # NoUser /\ last.pathname = PathHome) )
       => last.middleware.kind = "next"

\* the same routing, pathnames that only begin like a protected one aside
RoutingOnSegments ==
  ( /\ last.op = "request"
    /\ isProtectedRoute(last.pathname) => ProtectedPath(last.pathname) )
  => C21_MiddlewareRouting

\* C22: every create call terminates: whatever the storage does, also
\* when the insert collides, the call ends in a success or in one of the
\* named failures after a bounded number of insert attempts (one) and
\* never loops.
C22_CreateTerminates ==
  /\ <>(Finished = Racers)
  /\ [](\A r \in Finished :
          /\ race[r].attempts <= 1
          /\ \/ race[r].response.success
             \/ race[r].response.error \in {ErrCodeInUse, ErrGeneric})

\* all requests have ended, one in a collision and one in a storage fault,
\* each after a single insert attempt
C22_Witness ==
  /\ Finished = Racers
  /\ Lost # {}
  /\ Faulted # {}
  /\ \A r \in Racers : race[r].attempts = 1

\* C23: a create attempt that fails (uniqueness violation, validation
\* failure, unauthenticated caller or storage fault) leaves the links table
\* exactly as it was: no row is added and no existing row is modified.
C23_FailedCreateLeavesTable ==
  ( /\ last.op = "createLink"
    /\ \/ last.session = NoUser
       \/ last.input.url \in BadUrls
       \/ last.input.customCode = CodeAb
       \/ last.db \in {DbUnique, DbFault}
       \/ ~last.response.success )
  => /\ ~last.response.success
     /\ links = last.pre

\* an insert that met a storage fault, with a link in the table
C23_Witness ==
  /\ last.op = "createLink"
  /\ last.pre # {}
  /\ last.db = DbFault
  /\ ~last.response.success
  /\ links = last.pre

\* C24: when two delete calls by the owner for the same linkId run
\* concurrently, at most one of them returns true, because a delete returns
\* true only if that call removed the row.  Ids are not reused, so a row
\* is removed at most once: each call that returns true found the row in
\* the table at its DELETE statement and removed it.
C24_DeleteTrueRemovedRow ==
  (last.op = "deleteLinkInDb" /\ last.ret = RetBool(TRUE)) =>
    \E r \in last.pre :
      /\ r.id = last.linkId
      /\ r.userId = last.userId
      /\ r \notin links

\* both calls of the pair have returned
PairDone ==
  /\ race["r3"].op = "start"
  /\ \A r \in Pair : race[r].state = "done"

\* the call o made on the table tbl with nothing else running
ApplyOp(tbl, o) ==
  IF o.op = "updateLinkInDb"
    THEN updateLinkInDb(tbl, o.at, o.linkId, o.data, o.userId, FALSE)
    ELSE deleteLinkInDb(tbl, o.linkId, o.userId)

\* C25: when an update and a delete, or two updates, by the owner on the
\* same linkId run concurrently, the final table is the final table of one
\* of the two serial orders and each call's return value is the one it has
\* in that order; an update that returns a record modified a row that
\* existed at that moment.
C25_PairSerializable ==
  PairDone =>
    /\ \E a, b \in Pair :
         /\ a # b
         /\ LET x == ApplyOp(race["r3"].links, race[a])
                y == ApplyOp(x.links, race[b])
            IN /\ links = y.links
               /\ race[a].ret = x.ret
               /\ race[b].ret = y.ret
    /\ \A r \in Pair :
         (race[r].op = "updateLinkInDb" /\ race[r].ret.kind = "link") =>
           /\ \E q \in race[r].pre : q.id = race[r].linkId
           /\ race[r].ret.link.updatedAt = race[r].at

\* the update ran between the two statements of the delete
C25_Witness ==
  /\ PairDone
  /\ race["r2"].op = "deleteLinkInDb"
  /\ race["r2"].ret = RetBool(TRUE)
  /\ race["r1"].ret.kind = "link"
  /\ race["r2"].selectedAt < race["r1"].at
  /\ race["r1"].at < race["r2"].at

\* C26: link ids are never reused.  Every id in the table was handed out
\* by the sequence, the sequence never goes back, and an id that enters
\* the table is one the sequence had not handed out before; so a deleted
\* link's id never names a link again.
C26_IdsNeverReused ==
  /\ [](\A r \in links : r.id < nextId)
  /\ [][/\ nextId' >= nextId
        /\ \A r \in links' :
             (\A q \in links : q.id # r.id) => r.id >= nextId]_vars

\* a create that succeeds on a table emptied by a delete
C26_Witness ==
  /\ last.op = "createLink"
  /\ last.response.success
  /\ last.pre = {}
  /\ \E r \in links : r.id > 1

\* C27: createLink returns the code-in-use error only to requests that
\* supplied a non-empty customCode; a request that left the code to the
\* generator never receives it.
C27_CodeInUseOnlyForCustom ==
  (last.op = "createLink" /\ ~last.response.success
     /\ last.response.error = ErrCodeInUse) =>
    last.input.customCode \notin {Undefined, <<>>}

\* the createLink call that just returned came from a signed-in caller
\* with a valid url and the empty string as customCode
GaveEmptyCode ==
  /\ last.op = "createLink"
  /\ last.session \in Users
  /\ last.input.url \in GoodUrls
  /\ last.input.customCode = <<>>

\* C28: a createLink request whose customCode is the empty string is
\* treated as a request without customCode: it passes validation, the code
\* handed to storage is the generated one, the stored shortCode is that
\* 8-character code, and no row ever has the empty shortCode.
C28_EmptyCodeIsGenerated ==
  /\ \A r \in links : r.shortCode # <<>>
  /\ GaveEmptyCode =>
       /\ last.db # DbNone
       /\ last.attempts = 1
       /\ last.db # DbFault => last.tried = last.generated
       /\ ~last.response.success => last.response.error # ErrValidation
       /\ last.response.success =>
            /\ last.response.data \in links
            /\ last.response.data.shortCode = last.generated
            /\ Len(last.response.data.shortCode) = 8
       /\ \A draw \in RandomDraws, fault \in BOOLEAN :
            createLink(last.pre, nextId, clock, last.session, last.input,
                       draw, fault)
              = createLink(last.pre, nextId, clock, last.session,
                           [last.input EXCEPT !.customCode = Undefined],
                           draw, fault)

C28_Witness ==
  /\ GaveEmptyCode
  /\ last.response.success
  /\ Len(last.response.data.shortCode) = 8
  /\ last.response.data \in links

\* C29: whenever the create-link dialog goes from open to closed, its form
\* and its error message are reset, and whenever it is opened it shows no
\* error of an earlier submission.
C29_ClosedDialogIsReset ==
  [][/\ (dialog.open /\ ~dialog'.open) =>
          (dialog'.form = FormDefaults /\ dialog'.error = NoError)
     /\ (~dialog.open /\ dialog'.open) => dialog'.error = NoError]_vars

====
